---- MODULE Spec2Model ----
(***************************************************************************)
(* Playback synchronisation of Rakko Music: the Player (App.tsx with the   *)
(* usePresentationSync hook in role 'player'), the Controller (the same    *)
(* hook in role 'controller' feeding ControllerView) and the               *)
(* BroadcastChannel 'rakko_music_sync' between them.                       *)
(*                                                                         *)
(* React state is modelled as it behaves: a handler reads the values its   *)
(* closure captured at the last render (field view) and enqueues updates   *)
(* on the committed state (field st); Render commits and runs the effects. *)
(* Times are in milliseconds, volumes and playback rates in percent.       *)
(***************************************************************************)
EXTENDS Integers, Sequences, FiniteSets, TLC

\* ------------------------------------------------------------------ bounds
MaxInbox == 1        \* messages queued for one receiver
MaxTime == 1         \* audio positions and SEEK targets range over 0..MaxTime
MaxUnrendered == 2   \* events the Player handles before React re-renders
MaxTicks == 12       \* seconds the liveness monitor is followed for
MaxPings == 2        \* PINGs that await their PONG at one time
MaxCooldowns == 2    \* cooldown timeouts of the visibility handler pending at once

\* --------------------------------------------------------------- constants
DEBOUNCE_MS == 100

TimeSteps == {50, 100}       \* amounts by which the clock advances
AudioTimes == {2000, 4000}   \* audio positions at which the drift is looked at
Offsets == {-1200, -1000, -150, -100, 0, 100, 150, 1000, 1200}  \* video - audio
Timestamps == {1, 2}         \* values Date.now() returns
SongIds == {"a", "b"}        \* song "b" comes with a video
Flags == {TRUE}              \* SET_LOOP and SET_SHUFFLE payloads
Volumes == {50}              \* SET_VOLUME payloads
NoSong == "null"
NoCover == "null"
NoTimer == -1
Null == [null |-> TRUE]

HasVideo(s) == s = "b"
CoverOf(s) == IF s = "a" THEN "coverA" ELSE "coverB"

Min(x, y) == IF x < y THEN x ELSE y

\* ------------------------------------------------------- the Player (App)
InitAudioState ==
    [isPlaying |-> FALSE, currentTime |-> 0, duration |-> 0, volume |-> 80,
     isLooping |-> FALSE, isShuffle |-> FALSE]

InitProps ==
    [songs |-> <<>>, currentSong |-> NoSong, currentCover |-> NoCover,
     audioState |-> InitAudioState]

InitPlayer ==
    [attached |-> FALSE,
     st |-> InitProps,            \* committed React state
     changed |-> {},              \* state atoms replaced since the last render
     unrendered |-> 0,            \* events handled since the last render
     view |-> InitProps,          \* values the handlers and the hook close over
     mountView |-> InitProps,     \* values of the first render
     timer |-> NoTimer,           \* ms left of the pending broadcast timeout
     timerView |-> InitProps,     \* values the pending timeout closes over
     audio |-> [currentTime |-> 0, paused |-> TRUE, volume |-> 100, src |-> NoSong],
     video |-> [present |-> FALSE, currentTime |-> 0, paused |-> TRUE, playbackRate |-> 100],
     playPending |-> FALSE,       \* play() promise of the song-change effect
     coverPending |-> NoSong,     \* song whose extractAlbumArt() promise is pending
     isRecoveringFromBackground |-> FALSE,
     hidden |-> FALSE,            \* document.hidden
     cooldowns |-> <<>>]          \* ms left of the timeouts of the visibility handler

\* setAudioState(prev => ({...prev, [f]: v})): always a new object
SetAudioState(P, f, v) ==
    [P EXCEPT !.st.audioState[f] = v, !.changed = @ \cup {"audioState"}]

\* setCurrentSong(s)
SetCurrentSong(P, s) == [P EXCEPT !.st.currentSong = s]

\* setSongs(prev => ...): always a new array
SetSongs(P, ss) == [P EXCEPT !.st.songs = ss, !.changed = @ \cup {"songs"}]

AudioPlay(P) == [P EXCEPT !.audio.paused = FALSE]
AudioPause(P) == [P EXCEPT !.audio.paused = TRUE]

\* songs.findIndex(s => s.id === id), 0-based, -1 when absent
RECURSIVE FindIndexFrom(_, _, _)
FindIndexFrom(ss, id, i) ==
    IF i > Len(ss) THEN -1
    ELSE IF ss[i] = id THEN i - 1
    ELSE FindIndexFrom(ss, id, i + 1)

FindIndex(ss, id) == FindIndexFrom(ss, id, 1)

\* variant: the new flag is computed from the rendered value, not from prev
togglePlayPauseFromClosure(P) ==
    IF P.view.currentSong = NoSong /\ Len(P.view.songs) > 0
    THEN SetCurrentSong(P, P.view.songs[1])
    ELSE LET A == IF P.view.audioState.isPlaying THEN AudioPause(P) ELSE AudioPlay(P)
         IN  SetAudioState(A, "isPlaying", ~ P.view.audioState.isPlaying)

togglePlayPause(P) ==
    IF P.view.currentSong = NoSong /\ Len(P.view.songs) > 0
    THEN SetCurrentSong(P, P.view.songs[1])
    ELSE LET A == IF P.view.audioState.isPlaying THEN AudioPause(P) ELSE AudioPlay(P)
         IN  SetAudioState(A, "isPlaying", ~ A.st.audioState.isPlaying)

\* rnd is Math.floor(Math.random() * songs.length)
playNext(P, rnd) ==
    IF Len(P.view.songs) = 0 THEN P
    ELSE LET currentIndex == FindIndex(P.view.songs, P.view.currentSong)
             nextIndex == IF P.view.audioState.isShuffle
                          THEN rnd % Len(P.view.songs)
                          ELSE (currentIndex + 1) % Len(P.view.songs)
         IN  SetCurrentSong(P, P.view.songs[nextIndex + 1])

playPrev(P) ==
    IF Len(P.view.songs) = 0 THEN P
    ELSE LET currentIndex == FindIndex(P.view.songs, P.view.currentSong)
             prevIndex == (currentIndex - 1 + Len(P.view.songs)) % Len(P.view.songs)
         IN  SetCurrentSong(P, P.view.songs[prevIndex + 1])

\* variant: a seek while paused toggles isPlaying instead of setting it
handleSeekToTimeToggling(P, time) ==
    LET A == [P EXCEPT !.audio.currentTime = time,
                       !.video.currentTime = IF P.video.present THEN time ELSE @]
        B == SetAudioState(A, "currentTime", time)
    IN  IF ~ P.view.audioState.isPlaying
        THEN SetAudioState(AudioPlay(B), "isPlaying", ~ B.st.audioState.isPlaying)
        ELSE B

handleSeekToTime(P, time) ==
    LET A == [P EXCEPT !.audio.currentTime = time,
                       !.video.currentTime = IF P.video.present THEN time ELSE @]
        B == SetAudioState(A, "currentTime", time)
    IN  IF ~ P.view.audioState.isPlaying
        THEN SetAudioState(AudioPlay(B), "isPlaying", TRUE)
        ELSE B

onPlay(P) == IF ~ P.view.audioState.isPlaying THEN togglePlayPause(P) ELSE P

onPause(P) == IF P.view.audioState.isPlaying THEN togglePlayPause(P) ELSE P

onSetVolume(P, vol) ==
    SetAudioState([P EXCEPT !.audio.volume = vol], "volume", vol)

onSetLoop(P, loop) == SetAudioState(P, "isLooping", loop)

onSetShuffle(P, shuffle) == SetAudioState(P, "isShuffle", shuffle)

\* variant: the received song is made current without looking it up
onPlaySongUnchecked(P, song) ==
    SetAudioState(SetCurrentSong(P, song.id), "isPlaying", TRUE)

\* song is the structured clone the message carries; found is the entry of
\* the rendered playlist with the same id
onPlaySong(P, song) ==
    LET i == FindIndex(P.view.songs, song.id)
    IN  IF i >= 0
        THEN SetAudioState(SetCurrentSong(P, P.view.songs[i + 1]), "isPlaying", TRUE)
        ELSE P

\* Array.prototype.splice(start, deleteCount, ...items) on a copy; an index
\* past the end is clamped, a negative one counts from the end.
SpliceStart(ss, start) ==
    IF start < 0 THEN (IF Len(ss) + start < 0 THEN 0 ELSE Len(ss) + start)
    ELSE Min(start, Len(ss))

SpliceRemove(ss, start) ==
    LET s == SpliceStart(ss, start)
    IN  IF s >= Len(ss) THEN ss
        ELSE SubSeq(ss, 1, s) \o SubSeq(ss, s + 2, Len(ss))

SpliceInsert(ss, start, x) ==
    LET s == SpliceStart(ss, start)
    IN  SubSeq(ss, 1, s) \o <<x>> \o SubSeq(ss, s + 1, Len(ss))

Undefined == "undefined"

handleReorder(P, sourceIndex, destinationIndex) ==
    LET prev == P.st.songs
        s == SpliceStart(prev, sourceIndex)
        movedSong == IF s >= Len(prev) THEN Undefined ELSE prev[s + 1]
    IN  SetSongs(P, SpliceInsert(SpliceRemove(prev, sourceIndex), destinationIndex, movedSong))

\* variant: the switch has a default case that toggles playback
executeCommandCallsDefaultToggle(cmd) ==
    CASE cmd = "PLAY" -> <<"onPlay">>
      [] cmd = "PAUSE" -> <<"onPause">>
      [] cmd = "NEXT" -> <<"onNext">>
      [] cmd = "PREV" -> <<"onPrev">>
      [] cmd = "SEEK" -> <<"onSeek">>
      [] cmd = "SET_VOLUME" -> <<"onSetVolume">>
      [] cmd = "SET_LOOP" -> <<"onSetLoop">>
      [] cmd = "SET_SHUFFLE" -> <<"onSetShuffle">>
      [] cmd = "PLAY_SONG" -> <<"onPlaySong">>
      [] OTHER -> <<"onTogglePlay">>

\* switch (cmd) of executeCommand: the handlers it calls, in order
executeCommandCalls(cmd) ==
    CASE cmd = "PLAY" -> <<"onPlay">>
      [] cmd = "PAUSE" -> <<"onPause">>
      [] cmd = "TOGGLE_PLAY" -> <<"onTogglePlay">>
      [] cmd = "NEXT" -> <<"onNext">>
      [] cmd = "PREV" -> <<"onPrev">>
      [] cmd = "SEEK" -> <<"onSeek">>
      [] cmd = "SET_VOLUME" -> <<"onSetVolume">>
      [] cmd = "SET_LOOP" -> <<"onSetLoop">>
      [] cmd = "SET_SHUFFLE" -> <<"onSetShuffle">>
      [] cmd = "PLAY_SONG" -> <<"onPlaySong">>
      [] OTHER -> <<>>

\* the handlers App passes to the hook
CallHandler(P, h, payload, rnd) ==
    CASE h = "onPlay" -> onPlay(P)
      [] h = "onPause" -> onPause(P)
      [] h = "onTogglePlay" -> togglePlayPause(P)
      [] h = "onNext" -> playNext(P, rnd)
      [] h = "onPrev" -> playPrev(P)
      [] h = "onSeek" -> handleSeekToTime(P, payload)
      [] h = "onSetVolume" -> onSetVolume(P, payload)
      [] h = "onSetLoop" -> onSetLoop(P, payload)
      [] h = "onSetShuffle" -> onSetShuffle(P, payload)
      [] h = "onPlaySong" -> onPlaySong(P, payload)
      [] h = "onReorder" -> handleReorder(P, payload.from, payload.to)

RECURSIVE CallAll(_, _, _, _)
CallAll(P, hs, payload, rnd) ==
    IF hs = <<>> THEN P
    ELSE CallAll(CallHandler(P, Head(hs), payload, rnd), Tail(hs), payload, rnd)

executeCommand(P, cmd, payload, rnd) ==
    CallAll(P, executeCommandCalls(cmd), payload, rnd)

\* ------------------------------------------------------ render and effects
NeedsRender(P) == P.attached /\ (P.changed # {} \/ P.st # P.view)

\* deps [role, audioState, currentSong, currentCover, songs, broadcastState]
ThrottleDepsChanged(P) ==
    \/ P.changed # {}
    \/ P.st.currentSong # P.view.currentSong
    \/ P.st.currentCover # P.view.currentCover

\* useEffect(..., [audioState.isPlaying]) on the video element
VideoSyncEffect(P, old) ==
    IF P.video.present /\ P.view.audioState.isPlaying # old.audioState.isPlaying
    THEN [P EXCEPT !.video.paused = ~ P.view.audioState.isPlaying]
    ELSE P

\* useEffect(..., [currentSong])
SongChangeEffect(P, first, old) ==
    IF ~ first /\ P.view.currentSong = old.currentSong THEN P
    ELSE IF P.view.currentSong # NoSong
    THEN [P EXCEPT !.audio = [@ EXCEPT !.src = P.view.currentSong, !.currentTime = 0,
                                       !.paused = FALSE],
                   !.playPending = TRUE,
                   !.coverPending = P.view.currentSong]
    ELSE LET A == SetAudioState(AudioPause(P), "isPlaying", FALSE)
         IN  [A EXCEPT !.st.currentCover = NoCover]

\* variant: a pending timeout is kept, with the closure of the render that set it
ThrottleEffectKeepPending(P, rerun) ==
    IF rerun /\ P.timer = NoTimer
    THEN [P EXCEPT !.timer = DEBOUNCE_MS, !.timerView = P.view]
    ELSE P

\* the hook's throttle effect: clearTimeout of the previous run, setTimeout(100)
ThrottleEffect(P, rerun) ==
    IF rerun THEN [P EXCEPT !.timer = DEBOUNCE_MS, !.timerView = P.view] ELSE P

\* <video> is rendered by AppBackground while currentSong.videoUrl is set
CommitVideo(P) ==
    LET want == P.view.currentSong # NoSong /\ HasVideo(P.view.currentSong)
    IN  IF want = P.video.present THEN P
        ELSE [P EXCEPT !.video = [present |-> want, currentTime |-> 0, paused |-> TRUE,
                                  playbackRate |-> 100]]

\* one render of App and the effects it schedules
RenderWith(P, first) ==
    LET old == P.view
        rerun == first \/ ThrottleDepsChanged(P)
        C == CommitVideo([P EXCEPT !.view = P.st, !.changed = {}, !.unrendered = 0])
    IN  ThrottleEffect(SongChangeEffect(VideoSyncEffect(C, old), first, old), rerun)

Render(P) == RenderWith(P, FALSE)

\* renders until nothing is pending (the song-change effect sets state once more)
Settle(P) ==
    LET R1 == IF NeedsRender(P) THEN Render(P) ELSE P
    IN  IF NeedsRender(R1) THEN Render(R1) ELSE R1

\* first render of a freshly loaded App in role 'player'
Mount ==
    RenderWith([InitPlayer EXCEPT !.attached = TRUE, !.audio.volume = InitAudioState.volume],
               TRUE)

\* unmount of App: the effect cleanups clear the broadcast timeout and close
\* the channel; the timeouts of the visibility handler are not cleared
Unmount(P) == [InitPlayer EXCEPT !.hidden = P.hidden, !.cooldowns = P.cooldowns]

\* ------------------------------------------------ the hook: broadcastState
\* what broadcastState posts when it closes over the values V
broadcastState(role, open, V, now) ==
    IF role # "player" \/ ~ open THEN <<>>
    ELSE IF V.currentSong = NoSong /\ V.audioState = Null THEN <<>>
    ELSE << [type |-> "STATE_UPDATE", from |-> role,
             payload |-> [currentSong |-> V.currentSong,
                          currentCover |-> V.currentCover,
                          audioState |-> V.audioState,
                          songs |-> V.songs,
                          timestamp |-> now]] >>

\* variant: REQUEST_INIT is answered by the pending timeout when there is one
RequestInitReplyDebounced(P, now) ==
    IF P.timer # NoTimer THEN <<>>
    ELSE broadcastState("player", P.attached, P.mountView, now)

\* handleMessage is created by the mount effect and calls the broadcastState
\* of that render
RequestInitReply(P, now) == broadcastState("player", P.attached, P.mountView, now)

\* the timeout callback calls the broadcastState of the render that set it
TimeoutPost(P, now) == broadcastState("player", P.attached, P.timerView, now)

\* variant: every role posts REQUEST_INIT on mount
ChannelEffectPostAnyRole(role) == << [type |-> "REQUEST_INIT", from |-> role] >>

\* the channel effect posts REQUEST_INIT on mount in role 'controller'
ChannelEffectPost(role) ==
    IF role = "controller" THEN << [type |-> "REQUEST_INIT", from |-> role] >> ELSE <<>>

\* variant: sendCommand posts in every role
sendCommandAnyRole(role, open, cmd, payload) ==
    IF ~ open THEN <<>>
    ELSE << [type |-> "COMMAND", from |-> role, command |-> cmd, payload |-> payload] >>

\* sendCommand
sendCommand(role, open, cmd, payload) ==
    IF role # "controller" \/ ~ open THEN <<>>
    ELSE << [type |-> "COMMAND", from |-> role, command |-> cmd, payload |-> payload] >>

\* ----------------------------------------------------------- the Controller
InitCtrl ==
    [attached |-> FALSE, syncedSong |-> NoSong, syncedCover |-> NoCover,
     syncedAudioState |-> Null, syncedSongs |-> <<>>, lastSyncTime |-> 0,
     \* the hook's lastPongTime and the state of ControllerView
     lastPongTime |-> 0, currentTime |-> 0, isPinging |-> FALSE, nextTick |-> NoTimer]

\* variant: a snapshot older than the one held is dropped
HandleMessageControllerNewest(C, msg) ==
    IF msg.type = "STATE_UPDATE" /\ msg.payload.timestamp >= C.lastSyncTime
    THEN [C EXCEPT !.syncedSong = msg.payload.currentSong,
                   !.syncedCover = msg.payload.currentCover,
                   !.syncedAudioState = msg.payload.audioState,
                   !.syncedSongs = msg.payload.songs,
                   !.lastSyncTime = msg.payload.timestamp]
    ELSE C

\* variant: a null song or cover in the payload leaves the field as it is
HandleMessageControllerMerge(C, msg) ==
    IF msg.type = "STATE_UPDATE"
    THEN [C EXCEPT !.syncedSong = IF msg.payload.currentSong = NoSong THEN @
                                  ELSE msg.payload.currentSong,
                   !.syncedCover = IF msg.payload.currentCover = NoCover THEN @
                                   ELSE msg.payload.currentCover,
                   !.syncedAudioState = msg.payload.audioState,
                   !.syncedSongs = msg.payload.songs,
                   !.lastSyncTime = msg.payload.timestamp]
    ELSE C

\* handleMessage, role 'controller'
HandleMessageController(C, msg) ==
    IF msg.type = "STATE_UPDATE"
    THEN [C EXCEPT !.syncedSong = msg.payload.currentSong,
                   !.syncedCover = msg.payload.currentCover,
                   !.syncedAudioState = msg.payload.audioState,
                   !.syncedSongs = msg.payload.songs,
                   !.lastSyncTime = msg.payload.timestamp]
    ELSE C

\* variant: the placeholder is returned while currentSong is null
ControllerViewTextBySong(C) ==
    IF C.syncedSong = NoSong THEN "Connecting to Player..." ELSE "status"

\* ControllerView: the placeholder it returns while audioState is null
ControllerViewText(C) ==
    IF C.syncedAudioState = Null THEN "Connecting to Player..." ELSE "status"

ReadModel(C) ==
    [currentSong |-> C.syncedSong, currentCover |-> C.syncedCover,
     audioState |-> C.syncedAudioState, songs |-> C.syncedSongs,
     timestamp |-> C.lastSyncTime]

\* ------------------------------------------------- ControllerView: liveness
TICK_MS == 1000
STALE_THRESHOLD_MS == 10000
PONG_WINDOW_MS == 3000

\* mount of ControllerView: useState(Date.now()), setInterval(..., 1000), and
\* the first run of the pong effect
ControllerViewMount(C, now) ==
    [C EXCEPT !.currentTime = now, !.isPinging = FALSE, !.nextTick = now + TICK_MS]

\* the interval callback: setCurrentTime(Date.now())
IntervalTick(C, now) == [C EXCEPT !.currentTime = now, !.nextTick = now + TICK_MS]

\* variant: the PING button only sends
handlePingSendOnly(C) == C

\* handlePing: setIsPinging(true); sendPing() is posted by the hook
handlePing(C) == [C EXCEPT !.isPinging = TRUE]

\* variant: the pong effect leaves isPinging as it is
PongEffectKeep(C, old) == C

\* the effect with deps [lastPongTime]
PongEffect(C, old) ==
    IF C.lastPongTime # old.lastPongTime THEN [C EXCEPT !.isPinging = FALSE] ELSE C

isConnected(C) == C.currentTime - C.lastSyncTime < STALE_THRESHOLD_MS

\* variant: snapshot recency is looked at before the PONG
getStatusTextOnlineFirst(C) ==
    IF C.isPinging THEN "Pinging..."
    ELSE IF isConnected(C) THEN "Online"
    ELSE IF C.lastPongTime > 0 /\ C.currentTime - C.lastPongTime < PONG_WINDOW_MS
    THEN "Connected"
    ELSE "Offline"

\* variant: a snapshot exactly STALE_THRESHOLD_MS old still counts as recent
getStatusTextInclusive(C) ==
    IF C.isPinging THEN "Pinging..."
    ELSE IF C.lastPongTime > 0 /\ C.currentTime - C.lastPongTime < PONG_WINDOW_MS
    THEN "Connected"
    ELSE IF C.currentTime - C.lastSyncTime <= STALE_THRESHOLD_MS THEN "Online"
    ELSE "Offline"

getStatusText(C) ==
    IF C.isPinging THEN "Pinging..."
    ELSE IF C.lastPongTime > 0 /\ C.currentTime - C.lastPongTime < PONG_WINDOW_MS
    THEN "Connected"
    ELSE IF isConnected(C) THEN "Online"
    ELSE "Offline"

\* the hook's sendPing, which is not part of the sources: a PING command
sendPing(role, open) == sendCommand(role, open, "PING", 0)

\* the hook on a PONG, which is not part of the sources: lastPongTime becomes
\* the time of receipt
HandlePong(C, now) == [C EXCEPT !.lastPongTime = now]

\* ------------------------------------------------- App: local event handlers
SYNC_THRESHOLD_MS == 150
SEEK_THRESHOLD_MS == 1000

Abs(x) == IF x < 0 THEN -x ELSE x

\* variant: a hard seek leaves the playback rate as it is
handleTimeUpdateSeekKeepsRate(P) ==
    LET currentTime == P.audio.currentTime
        A == SetAudioState(P, "currentTime", currentTime)
        diff == P.video.currentTime - currentTime
    IN  IF P.video.present /\ P.view.currentSong # NoSong /\ HasVideo(P.view.currentSong)
           /\ ~ P.isRecoveringFromBackground
        THEN IF Abs(diff) < SYNC_THRESHOLD_MS
             THEN [A EXCEPT !.video.playbackRate = 100]
             ELSE IF Abs(diff) > SEEK_THRESHOLD_MS
             THEN [A EXCEPT !.video.currentTime = currentTime]
             ELSE [A EXCEPT !.video.playbackRate = IF diff > 0 THEN 95 ELSE 105]
        ELSE A

\* variant: a drift of exactly SEEK_THRESHOLD_MS is sought away
handleTimeUpdateSeekFromOneSecond(P) ==
    LET currentTime == P.audio.currentTime
        A == SetAudioState(P, "currentTime", currentTime)
        diff == P.video.currentTime - currentTime
    IN  IF P.video.present /\ P.view.currentSong # NoSong /\ HasVideo(P.view.currentSong)
           /\ ~ P.isRecoveringFromBackground
        THEN IF Abs(diff) < SYNC_THRESHOLD_MS
             THEN [A EXCEPT !.video.playbackRate = 100]
             ELSE IF Abs(diff) >= SEEK_THRESHOLD_MS
             THEN [A EXCEPT !.video.currentTime = currentTime, !.video.playbackRate = 100]
             ELSE [A EXCEPT !.video.playbackRate = IF diff > 0 THEN 95 ELSE 105]
        ELSE A

\* variant: a small drift leaves the playback rate as it is
handleTimeUpdateKeepsRateInSync(P) ==
    LET currentTime == P.audio.currentTime
        A == SetAudioState(P, "currentTime", currentTime)
        diff == P.video.currentTime - currentTime
    IN  IF P.video.present /\ P.view.currentSong # NoSong /\ HasVideo(P.view.currentSong)
           /\ ~ P.isRecoveringFromBackground
        THEN IF Abs(diff) < SYNC_THRESHOLD_MS
             THEN A
             ELSE IF Abs(diff) > SEEK_THRESHOLD_MS
             THEN [A EXCEPT !.video.currentTime = currentTime, !.video.playbackRate = 100]
             ELSE [A EXCEPT !.video.playbackRate = IF diff > 0 THEN 95 ELSE 105]
        ELSE A

\* variant: the two rates of the minor zone are exchanged
handleTimeUpdateSwappedRates(P) ==
    LET currentTime == P.audio.currentTime
        A == SetAudioState(P, "currentTime", currentTime)
        diff == P.video.currentTime - currentTime
    IN  IF P.video.present /\ P.view.currentSong # NoSong /\ HasVideo(P.view.currentSong)
           /\ ~ P.isRecoveringFromBackground
        THEN IF Abs(diff) < SYNC_THRESHOLD_MS
             THEN [A EXCEPT !.video.playbackRate = 100]
             ELSE IF Abs(diff) > SEEK_THRESHOLD_MS
             THEN [A EXCEPT !.video.currentTime = currentTime, !.video.playbackRate = 100]
             ELSE [A EXCEPT !.video.playbackRate = IF diff > 0 THEN 105 ELSE 95]
        ELSE A

\* variant: in the minor zone the rate is proportional to the drift
handleTimeUpdateProportional(P) ==
    LET currentTime == P.audio.currentTime
        A == SetAudioState(P, "currentTime", currentTime)
        diff == P.video.currentTime - currentTime
    IN  IF P.video.present /\ P.view.currentSong # NoSong /\ HasVideo(P.view.currentSong)
           /\ ~ P.isRecoveringFromBackground
        THEN IF Abs(diff) < SYNC_THRESHOLD_MS
             THEN [A EXCEPT !.video.playbackRate = 100]
             ELSE IF Abs(diff) > SEEK_THRESHOLD_MS
             THEN [A EXCEPT !.video.currentTime = currentTime, !.video.playbackRate = 100]
             ELSE [A EXCEPT !.video.playbackRate = 100 - (diff \div 100)]
        ELSE A

\* 'timeupdate' of the audio element
handleTimeUpdate(P) ==
    LET currentTime == P.audio.currentTime
        A == SetAudioState(P, "currentTime", currentTime)
        diff == P.video.currentTime - currentTime
    IN  IF P.video.present /\ P.view.currentSong # NoSong /\ HasVideo(P.view.currentSong)
           /\ ~ P.isRecoveringFromBackground
        THEN IF Abs(diff) < SYNC_THRESHOLD_MS
             THEN [A EXCEPT !.video.playbackRate = 100]
             ELSE IF Abs(diff) > SEEK_THRESHOLD_MS
             THEN [A EXCEPT !.video.currentTime = currentTime, !.video.playbackRate = 100]
             ELSE [A EXCEPT !.video.playbackRate = IF diff > 0 THEN 95 ELSE 105]
        ELSE A

\* 'ended' of the audio element; rnd is read by playNext
handleEnded(P, rnd) ==
    IF P.view.audioState.isLooping
    THEN LET A == [P EXCEPT !.audio.currentTime = 0, !.audio.paused = FALSE]
         IN  IF A.video.present
             THEN [A EXCEPT !.video.currentTime = 0, !.video.paused = FALSE]
             ELSE A
    ELSE playNext(P, rnd)

\* the visibility handler of the last render
COOLDOWN_MS == 1000

handleVisibilityChange(P) ==
    IF P.hidden
    THEN IF P.video.present /\ ~ P.video.paused
         THEN [P EXCEPT !.video.paused = TRUE]
         ELSE P
    ELSE IF P.video.present /\ P.view.currentSong # NoSong /\ HasVideo(P.view.currentSong)
            /\ P.view.audioState.isPlaying
    THEN [P EXCEPT !.isRecoveringFromBackground = TRUE,
                   !.video.currentTime = P.audio.currentTime,
                   !.video.paused = FALSE,
                   !.cooldowns = Append(@, COOLDOWN_MS)]
    ELSE P

\* the timeout callback of the visibility handler
CooldownCallback(P) ==
    [P EXCEPT !.isRecoveringFromBackground = FALSE, !.cooldowns = Tail(@)]

\* settlement of the play() promise of the song-change effect
PlaySettledOp(P, ok) ==
    SetAudioState([P EXCEPT !.playPending = FALSE,
                            !.audio.paused = IF ok THEN @ ELSE TRUE],
                  "isPlaying", ok)

\* extractAlbumArt(...).then(cover => setCurrentCover(cover))
CoverExtractedOp(P) ==
    [P EXCEPT !.st.currentCover = CoverOf(P.coverPending), !.coverPending = NoSong]

\* MysteryCodeModal onSuccess
onSuccess(P, newSong) ==
    LET A == SetSongs(P, Append(P.st.songs, newSong))
    IN  IF P.view.currentSong = NoSong
        THEN SetAudioState(SetCurrentSong(A, newSong), "isPlaying", TRUE)
        ELSE A

RECURSIVE Filter(_, _)
Filter(ss, id) ==
    IF ss = <<>> THEN <<>>
    ELSE IF Head(ss) = id THEN Filter(Tail(ss), id)
    ELSE <<Head(ss)>> \o Filter(Tail(ss), id)

handleRemoveSong(P, songId) ==
    LET newSongs == Filter(P.st.songs, songId)
        A == SetSongs(P, newSongs)
    IN  IF P.view.currentSong = songId
        THEN IF Len(newSongs) > 0
             THEN SetCurrentSong(A, newSongs[1])
             ELSE SetAudioState(SetCurrentSong(A, NoSong), "isPlaying", FALSE)
        ELSE A

\* ------------------------------------------------------------------- state
VARIABLES
    player,       \* the App in role 'player' and its audio and video elements
    ctrl,         \* the hook state of the App in role 'controller'
    playerInbox,  \* messages the channel has queued for the Player
    ctrlInbox,    \* messages the channel has queued for the Controller
    ev,           \* observation of the last step: what it handled, called and posted
    g             \* observation of the run so far

vars == <<player, ctrl, playerInbox, ctrlInbox, ev, g>>

NoCmd == [cmd |-> "none"]

NoEv ==
    [kind |-> "init", cmd |-> "none", payload |-> 0, posted |-> <<>>, calls |-> <<>>,
     fixed |-> TRUE, songsBefore |-> <<>>, prev |-> NoCmd,
     timerBefore |-> NoTimer,   \* timeout a REQUEST_INIT found pending
     \* what the handler of the event found: the video element, the audio
     \* position, the recovery flag and the rendered isPlaying
     before |-> [video |-> InitPlayer.video, audioTime |-> 0, recovering |-> FALSE,
                 isPlaying |-> FALSE]]

InitG ==
    [elapsed |-> 0,        \* ms since the throttle effect last ran, up to DEBOUNCE_MS
     flushes |-> 0,        \* timeouts that fired since the throttle effect last ran
     burst |-> 0,          \* runs of the throttle effect less than DEBOUNCE_MS apart
     synced |-> FALSE,     \* the last STATE_UPDATE posted carries the rendered state
     lastSnap |-> Null,    \* payload last delivered to the Controller since it attached
     prevTs |-> 0,         \* timestamp of the payload delivered before lastSnap
     prevSong |-> NoSong,  \* current song of the payload delivered before lastSnap
     reqSent |-> 0,        \* REQUEST_INITs the Controller posted since it attached
     ignored |-> FALSE,    \* a COMMAND was handled for which no handler ran
     replied |-> FALSE,    \* a REQUEST_INIT was answered since the throttle effect last ran
     clock |-> 1000,       \* Date.now(), ms
     pingsOut |-> 0,       \* PINGs the operator triggered since the last PONG arrived
     pongsDue |-> 0,       \* PINGs that reached a Player and are not answered yet
     lastReached |-> FALSE,  \* the most recent PING reached a Player
     awaited |-> FALSE,    \* the operator pressed PING after the last PONG arrived
     sinceResync |-> NoTimer,  \* ms since the last foreground resync, up to COOLDOWN_MS
     overlapped |-> FALSE,  \* the last resync found the timeout of an earlier one pending
     last |-> NoCmd]       \* last command handled, if only renders followed it

Init ==
    /\ player = InitPlayer
    /\ ctrl = InitCtrl
    /\ playerInbox = <<>>
    /\ ctrlInbox = <<>>
    /\ ev = NoEv
    /\ g = InitG

Ev(kind) == [NoEv EXCEPT !.kind = kind, !.songsBefore = player.st.songs]

\* BroadcastChannel.postMessage: queued for the other end if it is open
CanPost(open, inbox, msgs) == IF open THEN Len(inbox) + Len(msgs) <= MaxInbox ELSE TRUE
Posted(open, inbox, msgs) == IF open THEN inbox \o msgs ELSE inbox

\* the throttle effect re-runs in the renders that follow the handler result Q
ThrottleReran(Q) == NeedsRender(Q) /\ ThrottleDepsChanged(Q)

Rerun(G) ==
    [G EXCEPT !.elapsed = 0, !.flushes = 0, !.synced = FALSE, !.replied = FALSE,
              !.burst = IF G.elapsed < DEBOUNCE_MS THEN Min(@ + 1, 2) ELSE 1]

PropsOf(payload) ==
    [songs |-> payload.songs, currentSong |-> payload.currentSong,
     currentCover |-> payload.currentCover, audioState |-> payload.audioState]

\* the Player posted msgs while its rendered state was V
Published(G, msgs, V) ==
    IF msgs = <<>> THEN G ELSE [G EXCEPT !.synced = (PropsOf(msgs[1].payload) = V)]

GAfter(Q, settle, last) ==
    LET base == IF settle /\ ThrottleReran(Q) THEN Rerun(g) ELSE g
    IN  [base EXCEPT !.last = last]

Bump(Q) == IF NeedsRender(Q) THEN [Q EXCEPT !.unrendered = @ + 1] ELSE Q

\* the Player's state as its page and a Controller can observe it
Observable(P) == [st |-> P.st, audio |-> P.audio, video |-> P.video]

\* what follows a handler: React renders at once (settle) or later (RenderStep)
Step(Q, settle) == IF settle THEN Settle(Q) ELSE Bump(Q)

CanHandle(settle) ==
    player.attached /\ (IF settle THEN TRUE ELSE player.unrendered < MaxUnrendered)

\* ----------------------------------------------------------------- actions
PlayerMount ==
    /\ ~ player.attached
    /\ LET msgs == ChannelEffectPost("player")
       IN  /\ CanPost(ctrl.attached, ctrlInbox, msgs)
           /\ ctrlInbox' = Posted(ctrl.attached, ctrlInbox, msgs)
           /\ ev' = [Ev("player-mount") EXCEPT !.posted = msgs]
    /\ player' = Settle(Mount)
    /\ playerInbox' = <<>>
    /\ g' = [g EXCEPT !.elapsed = 0, !.flushes = 0, !.burst = 1, !.synced = FALSE, !.replied = FALSE,
                      !.last = NoCmd]
    /\ UNCHANGED ctrl

\* the page is closed: effect cleanups run (channel.close(), clearTimeout)
PlayerUnmount ==
    /\ player.attached
    /\ player' = Unmount(player)
    /\ playerInbox' = <<>>
    /\ g' = [g EXCEPT !.elapsed = 0, !.flushes = 0, !.burst = 0, !.synced = FALSE, !.replied = FALSE,
                      !.last = NoCmd]
    /\ ev' = Ev("player-unmount")
    /\ UNCHANGED <<ctrl, ctrlInbox>>

ControllerMount ==
    /\ ~ ctrl.attached
    /\ LET msgs == ChannelEffectPost("controller")
       IN  /\ CanPost(player.attached, playerInbox, msgs)
           /\ playerInbox' = Posted(player.attached, playerInbox, msgs)
           /\ ev' = [Ev("controller-mount") EXCEPT !.posted = msgs]
           /\ g' = [g EXCEPT !.lastSnap = Null, !.prevTs = 0, !.prevSong = NoSong, !.reqSent = Len(msgs)]
    /\ ctrl' = [InitCtrl EXCEPT !.attached = TRUE]
    /\ ctrlInbox' = <<>>
    /\ UNCHANGED player

ControllerUnmount ==
    /\ ctrl.attached
    /\ ctrl' = InitCtrl
    /\ ctrlInbox' = <<>>
    /\ g' = [g EXCEPT !.lastSnap = Null, !.prevTs = 0, !.prevSong = NoSong, !.reqSent = 0]
    /\ ev' = Ev("controller-unmount")
    /\ UNCHANGED <<player, playerInbox>>

\* a local event whose handler turns the Player into Q
LocalEvent(kind, Q, settle) ==
    /\ player' = Step(Q, settle)
    /\ g' = GAfter(Q, settle, NoCmd)
    /\ ev' = [Ev(kind) EXCEPT !.fixed = (Q = player)]
    /\ UNCHANGED <<ctrl, playerInbox, ctrlInbox>>

\* the audio clock reaches t and the element fires 'timeupdate'
AudioTick(t, settle) ==
    /\ CanHandle(settle)
    /\ ~ player.audio.paused /\ player.audio.src # NoSong
    /\ LocalEvent("timeupdate", handleTimeUpdate([player EXCEPT !.audio.currentTime = t]), settle)

\* the play() promise is fulfilled when the audio plays and rejected otherwise,
\* also after a pause() that came in between
PlaySettled(ok, settle) ==
    /\ CanHandle(settle)
    /\ player.playPending
    /\ ok => ~ player.audio.paused
    /\ LocalEvent("play-settled", PlaySettledOp(player, ok), settle)

CoverExtracted(settle) ==
    /\ CanHandle(settle)
    /\ player.coverPending # NoSong
    /\ LocalEvent("cover", CoverExtractedOp(player), settle)

AddSong(s, settle) ==
    /\ CanHandle(settle)
    /\ FindIndex(player.st.songs, s) = -1
    /\ LocalEvent("add-song", onSuccess(player, s), settle)

RemoveSong(s, settle) ==
    /\ CanHandle(settle)
    /\ FindIndex(player.st.songs, s) >= 0
    /\ LocalEvent("remove-song", handleRemoveSong(player, s), settle)

\* React renders the pending state updates
RenderStep ==
    /\ NeedsRender(player)
    /\ player' = Render(player)
    /\ g' = LET base == IF ThrottleDepsChanged(player) THEN Rerun(g) ELSE g
            IN  IF g.last = NoCmd THEN base
                ELSE [base EXCEPT !.last.rerendered = TRUE]
    /\ ev' = Ev("render")
    /\ UNCHANGED <<ctrl, playerInbox, ctrlInbox>>

\* d ms pass; a timeout that is due fires before more time passes
Advance(d) ==
    /\ player.attached
    /\ player.timer > 0
    /\ d <= player.timer
    /\ player' = [player EXCEPT !.timer = @ - d]
    /\ g' = [g EXCEPT !.elapsed = Min(@ + d, DEBOUNCE_MS)]
    /\ ev' = Ev("advance")
    /\ UNCHANGED <<ctrl, playerInbox, ctrlInbox>>

\* the callback of setTimeout(..., 100) runs
ThrottleTimeout ==
    /\ player.timer = 0
    /\ \E now \in Timestamps :
         LET msgs == TimeoutPost(player, now)
         IN  /\ CanPost(ctrl.attached, ctrlInbox, msgs)
             /\ ctrlInbox' = Posted(ctrl.attached, ctrlInbox, msgs)
             /\ ev' = [Ev("timeout") EXCEPT !.posted = msgs]
    /\ player' = [player EXCEPT !.timer = NoTimer]
    /\ \E now \in Timestamps :
         g' = Published([g EXCEPT !.flushes = Min(@ + 1, 2), !.last = NoCmd],
                        TimeoutPost(player, now), player.view)
    /\ UNCHANGED <<ctrl, playerInbox>>

\* variant: the reply to REQUEST_INIT starts the broadcast timeout anew
HandleMessagePlayerRestarting(P, msg, rnd, now) ==
    IF msg.type = "REQUEST_INIT"
    THEN [player |-> [P EXCEPT !.timer = DEBOUNCE_MS], posted |-> RequestInitReply(P, now),
          calls |-> <<>>]
    ELSE IF msg.type = "COMMAND"
    THEN [player |-> executeCommand(P, msg.command, msg.payload, rnd), posted |-> <<>>,
          calls |-> executeCommandCalls(msg.command)]
    ELSE [player |-> P, posted |-> <<>>, calls |-> <<>>]

\* handleMessage, role 'player'
HandleMessagePlayer(P, msg, rnd, now) ==
    IF msg.type = "REQUEST_INIT"
    THEN [player |-> P, posted |-> RequestInitReply(P, now), calls |-> <<>>]
    ELSE IF msg.type = "COMMAND"
    THEN [player |-> executeCommand(P, msg.command, msg.payload, rnd), posted |-> <<>>,
          calls |-> executeCommandCalls(msg.command)]
    ELSE [player |-> P, posted |-> <<>>, calls |-> <<>>]

\* whether two TOGGLE_PLAYs in a row starting now both reach the flip
ToggleFlips(P) ==
    \/ P.st.currentSong # NoSong /\ P.view.currentSong # NoSong
    \/ /\ P.st.currentSong = NoSong /\ P.st.songs = <<>>
       /\ ~ NeedsRender(P)

\* commands whose repeated delivery is observed
Repeatable == {"TOGGLE_PLAY", "SEEK", "PLAY", "PAUSE"}

SameCmd(last, msg) == last.cmd = msg.command /\ last.payload = msg.payload

OnMessagePlayer(msg, rnd, now, settle) ==
    LET r == HandleMessagePlayer(player, msg, rnd, now)
        isCmd == msg.type = "COMMAND"
    IN  /\ CanPost(ctrl.attached, ctrlInbox, r.posted)
        /\ ctrlInbox' = Posted(ctrl.attached, ctrlInbox, r.posted)
        /\ player' = Step(r.player, settle)
        /\ ev' = [Ev(msg.type) EXCEPT !.cmd = IF isCmd THEN msg.command ELSE "none",
                                      !.payload = IF isCmd THEN msg.payload ELSE 0,
                                      !.posted = r.posted,
                                      !.calls = r.calls,
                                      !.fixed = (Observable(r.player) = Observable(player)),
                                      !.prev = IF isCmd /\ SameCmd(g.last, msg)
                                               THEN g.last ELSE NoCmd,
                                      !.timerBefore = IF msg.type = "REQUEST_INIT"
                                                      THEN player.timer ELSE NoTimer]
        /\ g' = [Published(
                    GAfter(r.player, settle,
                           IF isCmd /\ msg.command \in Repeatable
                           THEN [cmd |-> msg.command, payload |-> msg.payload,
                                 playingBefore |-> player.st.audioState.isPlaying,
                                 rendered |-> ~ NeedsRender(player),
                                 rerendered |-> FALSE,
                                 flips |-> ToggleFlips(player)]
                           ELSE NoCmd),
                    r.posted, player.view)
                  EXCEPT !.ignored = @ \/ (isCmd /\ r.calls = <<>>),
                         !.replied = @ \/ msg.type = "REQUEST_INIT"]

\* channel.onmessage of the Player takes the next queued message
DeliverToPlayer ==
    /\ player.attached
    /\ playerInbox # <<>>
    /\ \E rnd \in 0 .. 1, now \in Timestamps :
         OnMessagePlayer(Head(playerInbox), rnd, now, TRUE)
    /\ playerInbox' = Tail(playerInbox)
    /\ UNCHANGED ctrl

\* a COMMAND message reaches channel.onmessage of the Player
CommandArrives(cmd, payload, settle) ==
    /\ CanHandle(settle)
    /\ LET msgs == sendCommand("controller", TRUE, cmd, payload)
           \* Math.random() is read by playNext only
           rnds == IF cmd = "NEXT" THEN 0 .. 1 ELSE {0}
       IN  \E rnd \in rnds : OnMessagePlayer(msgs[1], rnd, 1, settle)
    /\ UNCHANGED <<ctrl, playerInbox>>

\* channel.onmessage of the Controller takes the next queued message
DeliverToController ==
    /\ ctrl.attached
    /\ ctrlInbox # <<>>
    /\ LET msg == Head(ctrlInbox)
       IN  /\ ctrl' = HandleMessageController(ctrl, msg)
           /\ g' = IF msg.type = "STATE_UPDATE"
                   THEN [g EXCEPT !.lastSnap = msg.payload,
                                  !.prevTs = IF g.lastSnap = Null THEN 0
                                             ELSE g.lastSnap.timestamp,
                                  !.prevSong = IF g.lastSnap = Null THEN NoSong
                                               ELSE g.lastSnap.currentSong]
                   ELSE g
           /\ ev' = Ev(IF msg.type = "STATE_UPDATE" THEN "snapshot" ELSE "foreign")
    /\ ctrlInbox' = Tail(ctrlInbox)
    /\ UNCHANGED <<player, playerInbox>>

\* -------------------------------------------------- actions: liveness monitor
\* the Controller page opens at some clock reading
ViewMount ==
    /\ ~ ctrl.attached
    /\ ctrl' = ControllerViewMount([InitCtrl EXCEPT !.attached = TRUE], g.clock)
    /\ ev' = Ev("mount")
    /\ UNCHANGED <<player, playerInbox, ctrlInbox, g>>

\* a snapshot of a Player arrives; its timestamp is the present clock reading
SnapshotArrives ==
    /\ ctrl.attached
    /\ LET msg == broadcastState("player", TRUE, InitProps, g.clock)[1]
       IN  ctrl' = HandleMessageController(ctrl, msg)
    /\ ev' = Ev("snapshot")
    /\ UNCHANGED <<player, playerInbox, ctrlInbox, g>>

\* the interval callback of ControllerView
Tick ==
    /\ ctrl.nextTick # NoTimer
    /\ g.clock = ctrl.nextTick
    /\ ctrl' = IntervalTick(ctrl, g.clock)
    /\ ev' = Ev("tick")
    /\ UNCHANGED <<player, playerInbox, ctrlInbox, g>>

\* half a tick passes; an interval callback that is due runs first
Elapse ==
    /\ g.clock < InitG.clock + MaxTicks * TICK_MS
    /\ IF ctrl.attached THEN g.clock < ctrl.nextTick ELSE TRUE
    /\ g' = [g EXCEPT !.clock = @ + TICK_MS \div 2]
    /\ ev' = Ev("elapse")
    /\ UNCHANGED <<player, ctrl, playerInbox, ctrlInbox>>

\* the operator presses the PING button; a Player is there to answer or not
OperatorPing(reach) ==
    /\ ctrl.attached
    /\ ctrl.syncedAudioState # Null
    /\ g.pingsOut < MaxPings
    /\ ctrl' = handlePing(ctrl)
    /\ g' = [g EXCEPT !.pingsOut = @ + 1,
                      !.pongsDue = IF reach THEN @ + 1 ELSE @,
                      !.lastReached = reach, !.awaited = TRUE]
    /\ ev' = [Ev("ping") EXCEPT !.posted = sendPing("controller", TRUE)]
    /\ UNCHANGED <<player, playerInbox, ctrlInbox>>

\* the PONG of the oldest unanswered PING arrives; two PONGs are received at
\* different clock readings
PongArrives ==
    /\ ctrl.attached
    /\ g.pongsDue > 0
    /\ g.clock # ctrl.lastPongTime
    /\ ctrl' = PongEffect(HandlePong(ctrl, g.clock), ctrl)
    /\ g' = [g EXCEPT !.pingsOut = @ - 1, !.pongsDue = @ - 1, !.awaited = FALSE]
    /\ ev' = Ev("pong")
    /\ UNCHANGED <<player, playerInbox, ctrlInbox>>

\* ------------------------------------------------- actions: drift correction
Before(P) ==
    [video |-> P.video, audioTime |-> P.audio.currentTime,
     recovering |-> P.isRecoveringFromBackground,
     isPlaying |-> P.view.audioState.isPlaying]

\* the audio clock reaches a while the video is at a + off, and the audio
\* element fires 'timeupdate'
DriftTick(a, off) ==
    /\ CanHandle(TRUE)
    /\ ~ player.audio.paused /\ player.audio.src # NoSong
    /\ player.video.present
    /\ LET P == [player EXCEPT !.audio.currentTime = a, !.video.currentTime = a + off]
       IN  /\ player' = Settle(handleTimeUpdate(P))
           /\ g' = GAfter(handleTimeUpdate(P), TRUE, NoCmd)
           /\ ev' = [Ev("timeupdate") EXCEPT !.before = Before(P)]
    /\ UNCHANGED <<ctrl, playerInbox, ctrlInbox>>

\* the page goes to the background or comes back: 'visibilitychange'
VisibilityChange ==
    /\ CanHandle(TRUE)
    /\ Len(player.cooldowns) < MaxCooldowns
    /\ LET P == [player EXCEPT !.hidden = ~ @]
           Q == handleVisibilityChange(P)
       IN  /\ player' = Q
           /\ g' = IF Q.cooldowns # P.cooldowns
                   THEN [g EXCEPT !.sinceResync = 0, !.overlapped = P.cooldowns # <<>>]
                   ELSE g
           /\ ev' = [Ev(IF P.hidden THEN "hidden" ELSE "visible") EXCEPT !.before = Before(P)]
    /\ UNCHANGED <<ctrl, playerInbox, ctrlInbox>>

\* a cooldown timeout that is due runs its callback
CooldownExpires ==
    /\ player.cooldowns # <<>>
    /\ Head(player.cooldowns) = 0
    /\ player' = CooldownCallback(player)
    /\ ev' = [Ev("cooldown") EXCEPT !.before = Before(player)]
    /\ UNCHANGED <<ctrl, playerInbox, ctrlInbox, g>>

\* half a cooldown passes; a timeout that is due runs first
CooldownElapse ==
    /\ g.sinceResync >= 0
    /\ g.sinceResync < COOLDOWN_MS \/ player.cooldowns # <<>>
    /\ \A i \in DOMAIN player.cooldowns : player.cooldowns[i] > 0
    /\ player' = [player EXCEPT !.cooldowns =
                      [i \in DOMAIN @ |-> @[i] - COOLDOWN_MS \div 2]]
    /\ g' = [g EXCEPT !.sinceResync = Min(@ + COOLDOWN_MS \div 2, COOLDOWN_MS)]
    /\ ev' = Ev("elapse")
    /\ UNCHANGED <<ctrl, playerInbox, ctrlInbox>>

\* the playing track reaches its end and the audio element fires 'ended'
Ended ==
    /\ CanHandle(TRUE)
    /\ ~ player.audio.paused /\ player.audio.src # NoSong
    /\ \E rnd \in 0 .. 1 :
         LET Q == handleEnded(player, rnd)
         IN  /\ player' = Settle(Q)
             /\ g' = GAfter(Q, TRUE, NoCmd)
             /\ ev' = [Ev("ended") EXCEPT !.before = Before(player)]
    /\ UNCHANGED <<ctrl, playerInbox, ctrlInbox>>

\* ------------------------------------------------------------ actions: roles
\* the Controller view sends a command
ControllerSends(cmd) ==
    /\ ctrl.attached
    /\ LET msgs == sendCommand("controller", TRUE, cmd, 0)
       IN  /\ CanPost(player.attached, playerInbox, msgs)
           /\ playerInbox' = Posted(player.attached, playerInbox, msgs)
           /\ ev' = [Ev("controller-command") EXCEPT !.posted = msgs]
    /\ UNCHANGED <<player, ctrl, ctrlInbox, g>>

\* a second Controller posts msg: the channel hands it to the Player and to
\* this Controller
PeerPosts(msg) ==
    /\ CanPost(player.attached, playerInbox, <<msg>>)
    /\ CanPost(ctrl.attached, ctrlInbox, <<msg>>)
    /\ playerInbox' = Posted(player.attached, playerInbox, <<msg>>)
    /\ ctrlInbox' = Posted(ctrl.attached, ctrlInbox, <<msg>>)
    /\ ev' = [Ev("peer") EXCEPT !.posted = <<msg>>]
    /\ UNCHANGED <<player, ctrl, g>>

\* broadcastState is called in the hook of the Controller, which gets no
\* Player props
ControllerBroadcasts ==
    /\ ctrl.attached
    /\ \E now \in Timestamps :
         LET msgs == broadcastState("controller", TRUE,
                                    [InitProps EXCEPT !.audioState = Null], now)
         IN  /\ CanPost(player.attached, playerInbox, msgs)
             /\ playerInbox' = Posted(player.attached, playerInbox, msgs)
             /\ ev' = [Ev("controller-broadcast") EXCEPT !.posted = msgs]
    /\ UNCHANGED <<player, ctrl, ctrlInbox, g>>

\* sendCommand is called in the hook of the Player
PlayerSendsCommand(cmd) ==
    /\ player.attached
    /\ LET msgs == sendCommand("player", TRUE, cmd, 0)
       IN  /\ CanPost(ctrl.attached, ctrlInbox, msgs)
           /\ ctrlInbox' = Posted(ctrl.attached, ctrlInbox, msgs)
           /\ ev' = [Ev("player-command") EXCEPT !.posted = msgs]
    /\ UNCHANGED <<player, ctrl, playerInbox, g>>

\* channel.onmessage of the Player is given a STATE_UPDATE
UpdateReachesPlayer ==
    /\ player.attached
    /\ \E now \in Timestamps :
         OnMessagePlayer(broadcastState("player", TRUE, InitProps, now)[1], 0, now, TRUE)
    /\ UNCHANGED <<ctrl, playerInbox>>

\* ControllerView is unmounted: clearInterval, and its state is dropped
ViewUnmount ==
    /\ ctrl.attached
    /\ ctrl' = InitCtrl
    /\ ctrlInbox' = <<>>
    /\ ev' = Ev("view-unmount")
    /\ UNCHANGED <<player, playerInbox, g>>

\* ---------------------------------------------------------- specifications
\* PLAY and PAUSE delivered once or more, renders and the play() promise in
\* between or not
NextDup ==
    \/ PlayerMount
    \/ \E s \in SongIds : AddSong(s, FALSE)
    \/ RenderStep
    \/ \E ok \in BOOLEAN : PlaySettled(ok, FALSE)
    \/ \E c \in {"PLAY", "PAUSE"} : CommandArrives(c, 0, FALSE)

SpecDup == Init /\ [][NextDup]_vars

\* one Player, one Controller and the messages of a second Controller
NextRoles ==
    \/ PlayerMount
    \/ ControllerMount
    \/ AddSong("a", TRUE)
    \/ \E d \in TimeSteps : Advance(d)
    \/ ThrottleTimeout
    \/ DeliverToPlayer
    \/ DeliverToController
    \/ ControllerSends("TOGGLE_PLAY")
    \/ PeerPosts([type |-> "REQUEST_INIT", from |-> "controller"])
    \/ PeerPosts(sendCommand("controller", TRUE, "TOGGLE_PLAY", 0)[1])
    \/ ControllerBroadcasts
    \/ PlayerSendsCommand("PLAY")
    \/ UpdateReachesPlayer

SpecRoles == Init /\ [][NextRoles]_vars

\* mounting and unmounting App with the broadcast timeout and the cooldown
\* timeouts pending
NextTeardown ==
    \/ PlayerMount
    \/ PlayerUnmount
    \/ AddSong("b", TRUE)
    \/ \E ok \in BOOLEAN : PlaySettled(ok, TRUE)
    \/ VisibilityChange
    \/ CooldownExpires
    \/ CooldownElapse
    \/ \E d \in TimeSteps : Advance(d)
    \/ ThrottleTimeout

SpecTeardown == Init /\ [][NextTeardown]_vars

\* mounting and unmounting ControllerView with its interval running
NextViewTeardown ==
    \/ ViewMount
    \/ ViewUnmount
    \/ Tick
    \/ Elapse

SpecViewTeardown == Init /\ [][NextViewTeardown]_vars

\* the page in the background: visibility changes, commands and the end of
\* the track
NextHidden ==
    \/ PlayerMount
    \/ \E s \in SongIds : AddSong(s, TRUE)
    \/ \E ok \in BOOLEAN : PlaySettled(ok, TRUE)
    \/ \E c \in {"PLAY", "PAUSE", "TOGGLE_PLAY"} : CommandArrives(c, 0, TRUE)
    \/ \E t \in 0 .. MaxTime : CommandArrives("SEEK", t, TRUE)
    \/ \E s \in SongIds : CommandArrives("PLAY_SONG", [id |-> s], TRUE)
    \/ \E b \in Flags : CommandArrives("SET_LOOP", b, TRUE)
    \/ Ended
    \/ VisibilityChange
    \/ CooldownExpires
    \/ CooldownElapse

SpecHidden == Init /\ [][NextHidden]_vars

\* drift correction of the video against the audio, and the foreground resync
NextDrift ==
    \/ PlayerMount
    \/ \E s \in SongIds : AddSong(s, TRUE)
    \/ \E ok \in BOOLEAN : PlaySettled(ok, TRUE)
    \/ CommandArrives("TOGGLE_PLAY", 0, TRUE)
    \/ \E a \in AudioTimes, off \in Offsets : DriftTick(a, off)
    \/ VisibilityChange
    \/ CooldownExpires
    \/ CooldownElapse

SpecDrift == Init /\ [][NextDrift]_vars

\* the liveness monitor of the Controller view
NextLive ==
    \/ ViewMount
    \/ SnapshotArrives
    \/ Tick
    \/ Elapse
    \/ \E reach \in BOOLEAN : OperatorPing(reach)
    \/ PongArrives

SpecLive == Init /\ [][NextLive]_vars

\* the replication protocol: every handler is followed by its render
NextSync ==
    \/ PlayerMount
    \/ PlayerUnmount
    \/ ControllerMount
    \/ ControllerUnmount
    \/ AddSong("a", TRUE)
    \/ \E t \in 0 .. MaxTime : AudioTick(t, TRUE)
    \/ \E ok \in BOOLEAN : PlaySettled(ok, TRUE)
    \/ CoverExtracted(TRUE)
    \/ \E d \in TimeSteps : Advance(d)
    \/ ThrottleTimeout
    \/ DeliverToPlayer
    \/ DeliverToController

SpecSync == Init /\ [][NextSync]_vars

\* playback commands in the Player: renders happen between handlers or not
NextCmd ==
    \/ PlayerMount
    \/ \E s \in SongIds : AddSong(s, FALSE)
    \/ \E s \in SongIds : RemoveSong(s, FALSE)
    \/ RenderStep
    \/ \E c \in {"PLAY", "PAUSE", "TOGGLE_PLAY", "NEXT", "PREV"} :
         CommandArrives(c, 0, FALSE)
    \/ \E t \in 0 .. MaxTime : CommandArrives("SEEK", t, FALSE)
    \/ \E s \in SongIds : CommandArrives("PLAY_SONG", [id |-> s], FALSE)

SpecCmd == Init /\ [][NextCmd]_vars

\* every command kind the Controller view sends, each handler followed by its
\* render
NextCmdAll ==
    \/ PlayerMount
    \/ \E s \in SongIds : AddSong(s, TRUE)
    \/ \E s \in SongIds : RemoveSong(s, TRUE)
    \/ \E c \in {"PLAY", "PAUSE", "TOGGLE_PLAY", "NEXT", "PREV"} :
         CommandArrives(c, 0, TRUE)
    \/ \E t \in 0 .. MaxTime : CommandArrives("SEEK", t, TRUE)
    \/ \E v \in Volumes : CommandArrives("SET_VOLUME", v, TRUE)
    \/ \E b \in Flags : CommandArrives("SET_LOOP", b, TRUE)
    \/ \E b \in Flags : CommandArrives("SET_SHUFFLE", b, TRUE)
    \/ \E s \in SongIds : CommandArrives("PLAY_SONG", [id |-> s], TRUE)
    \/ \E i \in 0 .. 1, j \in 0 .. 1 :
         i # j /\ CommandArrives("REORDER_SONGS", [from |-> i, to |-> j], TRUE)

SpecCmdAll == Init /\ [][NextCmdAll]_vars

\* the same with a command kind that is not in the SyncCommand type
NextCmdFwd ==
    \/ NextCmdAll
    \/ CommandArrives("FUTURE_KIND", 0, TRUE)

SpecCmdFwd == Init /\ [][NextCmdFwd]_vars

\* the replication protocol under fair scheduling: a timeout that is due again
\* and again fires, time passes, and delivered messages are handled
SpecSyncFair ==
    /\ Init /\ [][NextSync]_vars
    /\ SF_vars(ThrottleTimeout)
    /\ WF_vars(\E d \in TimeSteps : Advance(d))
    /\ WF_vars(DeliverToController)
    /\ WF_vars(DeliverToPlayer)

\* ------------------------------------------------------------- properties
Initialized == ctrl.attached /\ ctrl.syncedAudioState # Null

\* C1: after the Controller processed snapshots S1..Sn in that order, its read
\* model equals Sn, whatever the timestamps of S1..Sn
C1_LastProcessedWins ==
    (ctrl.attached /\ g.lastSnap # Null) => ReadModel(ctrl) = g.lastSnap

\* the snapshot processed last carries an older timestamp than the one before
C1_Witness ==
    /\ ctrl.attached /\ g.lastSnap # Null
    /\ g.lastSnap.timestamp < g.prevTs
    /\ ReadModel(ctrl) = g.lastSnap

\* C2: handling REQUEST_INIT posts exactly one STATE_UPDATE in the same step,
\* whether or not a debounce timeout is pending
C2_InitReplyImmediate ==
    ev.kind = "REQUEST_INIT" =>
        /\ Len(ev.posted) = 1
        /\ ev.posted[1].type = "STATE_UPDATE"
        /\ ev.posted[1].from = "player"

\* REQUEST_INIT handled 0 ms into a debounce window, which stays pending
C2_Witness ==
    /\ ev.kind = "REQUEST_INIT"
    /\ Len(ev.posted) = 1
    /\ player.timer = DEBOUNCE_MS
    /\ g.elapsed = 0

\* C3: the STATE_UPDATE that answers REQUEST_INIT carries the Player's state
\* at the time the request is handled
C3_ReplyCarriesCurrentState ==
    ev.kind = "REQUEST_INIT" =>
        /\ Len(ev.posted) = 1
        /\ PropsOf(ev.posted[1].payload) = player.st

C5_EveryChangePublished ==
    (player.attached /\ ~ g.synced) ~> (g.synced \/ ~ player.attached)

\* C6: the Controller is uninitialized (syncedAudioState null, lastSyncTime 0,
\* placeholder view) exactly until it processes its first STATE_UPDATE, and
\* stays initialized from then on
C6_UninitializedUntilFirstSnapshot ==
    ctrl.attached =>
        /\ (g.lastSnap = Null) <=> (ctrl.syncedAudioState = Null)
        /\ (g.lastSnap = Null) =>
              /\ ctrl.lastSyncTime = 0
              /\ ControllerViewText(ctrl) = "Connecting to Player..."
        /\ (g.lastSnap # Null) =>
              /\ ctrl.lastSyncTime > 0
              /\ ControllerViewText(ctrl) # "Connecting to Player..."

\* a second snapshot, older than the first and without a song, was processed
C6_Witness ==
    /\ Initialized
    /\ g.prevTs > ctrl.lastSyncTime
    /\ ctrl.syncedSong = NoSong
    /\ ControllerViewText(ctrl) = "status"

\* C7: the Controller posts exactly one REQUEST_INIT, in the step that
\* attaches it, and never another; the Player never posts REQUEST_INIT
C7_SingleRequestInit ==
    /\ ctrl.attached => g.reqSent = 1
    /\ ev.kind = "controller-mount" =>
          /\ Len(ev.posted) = 1
          /\ ev.posted[1].type = "REQUEST_INIT"
    /\ ev.kind # "controller-mount" =>
          \A i \in DOMAIN ev.posted : ev.posted[i].type # "REQUEST_INIT"
    /\ \A i \in DOMAIN ctrlInbox : ctrlInbox[i].type # "REQUEST_INIT"
    /\ \A i \in DOMAIN playerInbox : playerInbox[i].from = "controller"

\* the Controller attached with no Player present, the Player mounted later,
\* and the Controller is still uninitialized without a request in flight
C7_Witness ==
    /\ ctrl.attached /\ g.reqSent = 1
    /\ ev.kind = "player-mount"
    /\ playerInbox = <<>>
    /\ ctrl.syncedAudioState = Null

\* the second of two equal commands handled one after the other; renders may
\* happen in between, no other handler does
SecondOf(cmd) == ev.kind = "COMMAND" /\ ev.cmd = cmd /\ ev.prev.cmd = cmd

\* C8 as stated: two TOGGLE_PLAY commands in a row leave isPlaying as it was,
\* from every state, with or without a render in between
C8_ToggleTwiceRestores ==
    SecondOf("TOGGLE_PLAY") => player.st.audioState.isPlaying = ev.prev.playingBefore

\* C8, restricted to the states where TOGGLE_PLAY flips isPlaying: a current
\* song that is rendered, or no song with an empty playlist and no render due
C8_ToggleTwiceRestoresWhenFlipping ==
    (SecondOf("TOGGLE_PLAY") /\ ev.prev.flips) =>
        player.st.audioState.isPlaying = ev.prev.playingBefore

\* both commands were handled by the same render, starting from playing
C8_Witness ==
    /\ SecondOf("TOGGLE_PLAY") /\ ev.prev.flips
    /\ ~ ev.prev.rerendered
    /\ ev.prev.playingBefore
    /\ player.st.currentSong # NoSong
    /\ player.st.audioState.isPlaying

ExpectedHandler(cmd) ==
    CASE cmd = "PLAY" -> "onPlay"
      [] cmd = "PAUSE" -> "onPause"
      [] cmd = "TOGGLE_PLAY" -> "onTogglePlay"
      [] cmd = "NEXT" -> "onNext"
      [] cmd = "PREV" -> "onPrev"
      [] cmd = "SEEK" -> "onSeek"
      [] cmd = "SET_VOLUME" -> "onSetVolume"
      [] cmd = "SET_LOOP" -> "onSetLoop"
      [] cmd = "SET_SHUFFLE" -> "onSetShuffle"
      [] cmd = "PLAY_SONG" -> "onPlaySong"
      [] cmd = "REORDER_SONGS" -> "onReorder"

\* ss with the entries at 0-based positions i and j exchanged
Exchanged(ss, i, j) ==
    [k \in DOMAIN ss |-> IF k = i + 1 THEN ss[j + 1]
                         ELSE IF k = j + 1 THEN ss[i + 1] ELSE ss[k]]

\* C10: a command of each kind invokes exactly the one handler of that kind,
\* and REORDER_SONGS {from, to} moves the playlist entry at from to to
C10_EachKindItsHandler ==
    ev.kind = "COMMAND" =>
        /\ ev.calls = << ExpectedHandler(ev.cmd) >>
        /\ (ev.cmd = "REORDER_SONGS" /\ Len(ev.songsBefore) = 2) =>
              player.st.songs = Exchanged(ev.songsBefore, ev.payload.from, ev.payload.to)

\* the ten kinds other than REORDER_SONGS
C10_KindsWithACase ==
    (ev.kind = "COMMAND" /\ ev.cmd # "REORDER_SONGS") =>
        ev.calls = << ExpectedHandler(ev.cmd) >>

\* the kinds of the SyncCommand type, each with a case in executeCommand
DispatchTable ==
    {"PLAY", "PAUSE", "TOGGLE_PLAY", "NEXT", "PREV", "SEEK", "SET_VOLUME", "SET_LOOP",
     "SET_SHUFFLE", "PLAY_SONG"}

\* C11: a COMMAND whose kind is not in the dispatch table runs no handler,
\* leaves playback state and playlist unchanged and posts nothing; commands
\* of the table handled after it still run their handler
C11_UnknownKindIgnored ==
    ev.kind = "COMMAND" =>
        /\ ev.cmd \notin DispatchTable =>
              /\ ev.calls = <<>>
              /\ ev.fixed
              /\ ev.posted = <<>>
        /\ (ev.cmd \in DispatchTable /\ g.ignored) =>
              ev.calls = << ExpectedHandler(ev.cmd) >>

\* after FUTURE_KIND was ignored, PLAY_SONG ran its handler and changed state
C11_Witness ==
    /\ ev.kind = "COMMAND" /\ ev.cmd = "PLAY_SONG"
    /\ g.ignored
    /\ ev.calls = <<"onPlaySong">>
    /\ ~ ev.fixed

\* C12: PLAY_SONG looks the received id up in the Player's playlist: when an
\* entry has it, that entry becomes currentSong and isPlaying becomes true;
\* when none has it, currentSong, isPlaying and the playlist are unchanged
C12_PlaySongResolvesById ==
    (ev.kind = "COMMAND" /\ ev.cmd = "PLAY_SONG") =>
        IF \E i \in DOMAIN ev.songsBefore : ev.songsBefore[i] = ev.payload.id
        THEN /\ player.st.currentSong = ev.payload.id
             /\ \E i \in DOMAIN player.st.songs : player.st.songs[i] = player.st.currentSong
             /\ player.st.audioState.isPlaying
             /\ player.st.songs = ev.songsBefore
        ELSE ev.fixed

\* PLAY_SONG for a song that was removed, while another song is current
C12_Witness ==
    /\ ev.kind = "COMMAND" /\ ev.cmd = "PLAY_SONG"
    /\ ev.payload.id = "a"
    /\ player.st.songs = <<"b">>
    /\ player.st.currentSong = "b"
    /\ ev.fixed

\* ------------------------------------------------ properties: liveness monitor
AtTick == ev.kind = "tick" /\ ctrl.syncedAudioState # Null
SnapshotAge == ctrl.currentTime - ctrl.lastSyncTime
RecentPong == ctrl.lastPongTime > 0 /\ ctrl.currentTime - ctrl.lastPongTime < PONG_WINDOW_MS


\* C13 as stated: at every tick of an initialized Controller, a snapshot of age
\* STALE_THRESHOLD_MS or more and no PONG within PONG_WINDOW_MS give Offline;
\* a younger snapshot, no recent PONG and no outstanding PING give Online
C13_StaleMeansOffline ==
    AtTick =>
        /\ (SnapshotAge >= STALE_THRESHOLD_MS /\ ~ RecentPong)
               => getStatusText(ctrl) = "Offline"
        /\ (SnapshotAge < STALE_THRESHOLD_MS /\ ~ RecentPong /\ ~ ctrl.isPinging)
               => getStatusText(ctrl) = "Online"

\* C13, amended: at every tick of an initialized Controller with no recent PONG
\* and no PING awaited (isPinging false), the status is Offline when the
\* snapshot age is STALE_THRESHOLD_MS or more, and Online when it is less
C13_StaleMeansOfflineUnlessPinging ==
    (AtTick /\ ~ RecentPong /\ ~ ctrl.isPinging) =>
        getStatusText(ctrl) =
            IF SnapshotAge >= STALE_THRESHOLD_MS THEN "Offline" ELSE "Online"

\* a tick exactly STALE_THRESHOLD_MS after the last snapshot, long after a PONG
C13_Witness ==
    /\ AtTick /\ ~ ctrl.isPinging
    /\ ctrl.lastPongTime > 0 /\ ~ RecentPong
    /\ SnapshotAge = STALE_THRESHOLD_MS
    /\ getStatusText(ctrl) = "Offline"


\* the most recent PING reached a Player and its PONG has been received
AnsweredLatest == g.lastReached /\ g.pongsDue = 0 /\ ctrl.lastPongTime > 0

Shown == ctrl.attached /\ ctrl.syncedAudioState # Null
PingPosted == \E i \in DOMAIN ev.posted : ev.posted[i].command = "PING"

Evaluated == ev.kind = "timeupdate" /\ ev.before.video.present /\ ~ ev.before.recovering
Delta == ev.before.video.currentTime - ev.before.audioTime


\* C16: a tick that finds the video, no cooldown and a drift of more than
\* SEEK_THRESHOLD_MS sets the video position to the audio time and the rate to 1.0
C16_MajorDriftHardSeek ==
    (Evaluated /\ Abs(Delta) > SEEK_THRESHOLD_MS) =>
        /\ player.video.currentTime = ev.before.audioTime
        /\ player.video.playbackRate = 100

\* the video lags by 1.2 s at rate 1.05 and is sought to the audio time
C16_Witness ==
    /\ Evaluated /\ Delta = -1200
    /\ ev.before.video.playbackRate = 105
    /\ player.video.currentTime = ev.before.audioTime
    /\ player.video.playbackRate = 100

\* C17: a tick that finds the video, no cooldown and a drift from
\* SYNC_THRESHOLD_MS to SEEK_THRESHOLD_MS, both included, sets the rate to 0.95
\* if the video leads and to 1.05 if it lags, and leaves the video position
C17_MinorDriftAdjustsRate ==
    (Evaluated /\ Abs(Delta) >= SYNC_THRESHOLD_MS /\ Abs(Delta) <= SEEK_THRESHOLD_MS) =>
        /\ player.video.playbackRate = IF Delta > 0 THEN 95 ELSE 105
        /\ player.video.currentTime = ev.before.video.currentTime

\* the video leads by exactly 1.0 s at rate 1.05 and is slowed to 0.95
C17_Witness ==
    /\ Evaluated /\ Delta = SEEK_THRESHOLD_MS
    /\ ev.before.video.playbackRate = 105
    /\ player.video.playbackRate = 95
    /\ player.video.currentTime = ev.before.audioTime + SEEK_THRESHOLD_MS

\* C18: a tick that finds the video, no cooldown and a drift of less than
\* SYNC_THRESHOLD_MS leaves the rate at 1.0 and the video position unchanged
C18_SyncedResetsRate ==
    (Evaluated /\ Abs(Delta) < SYNC_THRESHOLD_MS) =>
        /\ player.video.playbackRate = 100
        /\ player.video.currentTime = ev.before.video.currentTime

\* the video leads by 0.1 s at rate 0.95 and returns to rate 1.0
C18_Witness ==
    /\ Evaluated /\ Delta = 100
    /\ ev.before.video.playbackRate = 95
    /\ player.video.playbackRate = 100
    /\ player.video.currentTime = ev.before.audioTime + 100


\* the page came back to the foreground while a video accompanies the song
Foregrounded == ev.kind = "visible" /\ ev.before.video.present

\* C19: each return to the foreground with a video in place sets the video
\* position to the audio time and leaves the rate at 1.0, whatever the rate was
\* and whether or not the audio is playing
C19_ForegroundResync ==
    Foregrounded =>
        /\ player.video.currentTime = player.audio.currentTime
        /\ player.video.playbackRate = 100

\* what the visibility handler does: with isPlaying rendered true one seek to
\* the audio time, one cooldown and the rate as it was; otherwise nothing
C19_ResyncOnlyWhilePlaying ==
    Foregrounded =>
        IF ev.before.isPlaying
        THEN /\ player.video.currentTime = player.audio.currentTime
             /\ player.video.playbackRate = ev.before.video.playbackRate
             /\ player.isRecoveringFromBackground
             /\ g.sinceResync = 0
        ELSE player.video = ev.before.video

\* the return to the foreground left the rate at 0.95
C19_RateKept ==
    /\ Foregrounded /\ ev.before.isPlaying
    /\ player.video.currentTime = player.audio.currentTime
    /\ player.video.playbackRate = 95

\* the return to the foreground with the audio paused left the video 100 ms off
C19_NoResyncWhilePaused ==
    /\ Foregrounded /\ ~ ev.before.isPlaying
    /\ player.video.currentTime = player.audio.currentTime + 100


\* a tick that left the video element as it found it
VideoUntouched ==
    /\ player.video.currentTime = ev.before.video.currentTime
    /\ player.video.playbackRate = ev.before.video.playbackRate

\* C20: no tick less than COOLDOWN_MS after the most recent foreground resync
\* changes the position or the rate of the video, however the returns to the
\* foreground and the cooldown timeouts interleave
C20_NoDriftEvaluationInCooldown ==
    (ev.kind = "timeupdate" /\ g.sinceResync >= 0 /\ g.sinceResync < COOLDOWN_MS)
        => VideoUntouched

\* what the recovery flag gives: a tick that finds it set leaves the video
\* alone, and it is set for COOLDOWN_MS after a resync that found no timeout
\* of an earlier resync pending
C20_SuspendedWhileFlagSet ==
    /\ (ev.kind = "timeupdate" /\ ev.before.recovering) => VideoUntouched
    /\ (g.sinceResync >= 0 /\ g.sinceResync < COOLDOWN_MS /\ ~ g.overlapped)
          => player.isRecoveringFromBackground

\* a tick half a cooldown after the second of two resyncs seeks the video
C20_EarlyEvaluation ==
    /\ ev.kind = "timeupdate" /\ g.sinceResync = COOLDOWN_MS \div 2
    /\ Len(player.cooldowns) = 1
    /\ Delta = 1200
    /\ player.video.currentTime = ev.before.audioTime


\* ---------------------------------------------------- properties: background
\* C21: in every state with the document hidden the video is paused
C21_PausedWhileHidden ==
    (player.hidden /\ player.video.present) => player.video.paused

\* what the visibility handler gives: the video is paused when the page goes
\* to the background
C21_PausedOnHide ==
    (ev.kind = "hidden" /\ player.video.present) => player.video.paused

\* the video sync effect started the video of a hidden page
C21_PlayWhileHidden ==
    /\ player.hidden /\ player.video.present /\ ~ player.video.paused
    /\ ev.kind = "COMMAND" /\ ev.cmd = "TOGGLE_PLAY"

\* the restart of a looping track started the video of a hidden page
C21_LoopWhileHidden ==
    /\ player.hidden /\ player.video.present /\ ~ player.video.paused
    /\ ev.kind = "ended" /\ ev.before.video.paused


\* ------------------------------------------------------ properties: teardown
\* C22: no callback of the broadcast timeout, of the staleness interval or of
\* the recovery cooldown runs after its component was unmounted
C22_NoCallbackAfterTeardown ==
    /\ ev.kind = "timeout" => player.attached
    /\ ev.kind = "tick" => ctrl.attached
    /\ ev.kind = "cooldown" => player.attached

\* what the effect cleanups give: after the unmount the broadcast timeout and
\* the interval are gone, and their callbacks run in a mounted component only
C22_DebounceAndTickCancelled ==
    /\ ~ player.attached => player.timer = NoTimer
    /\ ~ ctrl.attached => ctrl.nextTick = NoTimer
    /\ ev.kind = "timeout" => player.attached
    /\ ev.kind = "tick" => ctrl.attached

\* the cooldown callback ran in an unmounted App
C22_CooldownAfterUnmount == ev.kind = "cooldown" /\ ~ player.attached


\* ---------------------------------------------------- properties: read model
\* C23: in every state of an attached Controller the five fields of the read
\* model are the five fields of the snapshot it processed last, null song and
\* null cover included; before the first snapshot they are the initial values
C23_FullAtomicReplace ==
    ctrl.attached =>
        IF g.lastSnap = Null
        THEN /\ ctrl.syncedSong = NoSong /\ ctrl.syncedCover = NoCover
             /\ ctrl.syncedAudioState = Null /\ ctrl.syncedSongs = <<>>
             /\ ctrl.lastSyncTime = 0
        ELSE /\ ctrl.syncedSong = g.lastSnap.currentSong
             /\ ctrl.syncedCover = g.lastSnap.currentCover
             /\ ctrl.syncedAudioState = g.lastSnap.audioState
             /\ ctrl.syncedSongs = g.lastSnap.songs
             /\ ctrl.lastSyncTime = g.lastSnap.timestamp

\* a snapshot without song, cover and playlist replaced one that had them
C23_Witness ==
    /\ ctrl.attached /\ g.lastSnap # Null /\ ev.kind = "snapshot"
    /\ g.prevSong = "a"
    /\ g.lastSnap.currentSong = NoSong /\ g.lastSnap.currentCover = NoCover
    /\ ctrl.syncedSong = NoSong /\ ctrl.syncedCover = NoCover
    /\ ctrl.syncedSongs = <<>>


\* ---------------------------------------------------------- properties: roles
PlayerEvents == {"player-mount", "timeout", "REQUEST_INIT", "COMMAND", "STATE_UPDATE"}

\* C24: STATE_UPDATE is posted by the Player only, COMMAND and REQUEST_INIT by
\* Controllers only; broadcastState in the Controller and sendCommand in the
\* Player post nothing; the Controller's read model is untouched by a COMMAND
\* or REQUEST_INIT it receives, and the Player by a STATE_UPDATE
C24_RolesSeparated ==
    /\ \A i \in DOMAIN ev.posted :
          IF ev.posted[i].type = "STATE_UPDATE"
          THEN ev.posted[i].from = "player" /\ ev.kind \in PlayerEvents
          ELSE ev.posted[i].from = "controller" /\ ev.kind \notin PlayerEvents
    /\ ev.kind \in {"controller-broadcast", "player-command"} => ev.posted = <<>>
    /\ ev.kind = "foreign" =>
          ReadModel(ctrl) = IF g.lastSnap = Null THEN ReadModel(InitCtrl) ELSE g.lastSnap
    /\ ev.kind = "STATE_UPDATE" => ev.fixed /\ ev.posted = <<>> /\ ev.calls = <<>>

\* an initialized Controller took the COMMAND of a second Controller from its
\* queue and kept its read model
C24_Witness ==
    /\ ev.kind = "foreign" /\ Initialized
    /\ g.lastSnap.currentSong = "a"
    /\ ctrl.syncedSong = "a" /\ ctrl.syncedAudioState = g.lastSnap.audioState


\* ------------------------------------------- properties: absolute commands
\* nothing is left to render and no play() promise is pending
Quiescent == player.attached /\ ~ NeedsRender(player) /\ ~ player.playPending

\* C25: after PLAY, delivered once or more, isPlaying is true and the audio
\* plays; after PAUSE isPlaying is false and the audio is paused; in every
\* quiescent state isPlaying agrees with the audio element
C25_AbsoluteCommandsIdempotent ==
    /\ (ev.kind = "COMMAND" /\ ev.cmd = "PLAY" /\ player.st.currentSong # NoSong)
          => player.st.audioState.isPlaying /\ ~ player.audio.paused
    /\ (ev.kind = "COMMAND" /\ ev.cmd = "PAUSE" /\ player.st.currentSong # NoSong)
          => ~ player.st.audioState.isPlaying /\ player.audio.paused
    /\ Quiescent => (player.st.audioState.isPlaying <=> ~ player.audio.paused)

\* what holds: a PLAY or PAUSE handled by a Player that has a song and nothing
\* left to render sets the flag as commanded, and the audio element too when
\* the flag was the other way
C25_AbsoluteWhenRendered ==
    (ev.kind = "COMMAND" /\ ev.cmd \in {"PLAY", "PAUSE"}
       /\ g.last.cmd = ev.cmd /\ g.last.rendered
       /\ player.view.currentSong # NoSong) =>
        /\ player.st.audioState.isPlaying = (ev.cmd = "PLAY")
        /\ g.last.playingBefore # (ev.cmd = "PLAY")
              => player.audio.paused = (ev.cmd = "PAUSE")

\* the second of two PLAYs handled by one render flipped isPlaying back while
\* the audio plays
C25_SecondPlayFlipsBack ==
    /\ SecondOf("PLAY") /\ ~ ev.prev.rerendered /\ ~ ev.prev.playingBefore
    /\ player.st.currentSong = "a" /\ player.view.currentSong = "a"
    /\ ~ player.st.audioState.isPlaying /\ ~ player.audio.paused

\* a quiescent Player whose flag says paused while the audio plays
C25_QuiescentMismatch ==
    /\ Quiescent /\ player.st.currentSong = "a"
    /\ ~ player.st.audioState.isPlaying /\ ~ player.audio.paused


\* ------------------------------------------------- properties: REQUEST_INIT
\* C26: handling REQUEST_INIT leaves the pending broadcast timeout as it was,
\* neither cleared nor started anew, and changes no playback state; the
\* timeout of a window in which a REQUEST_INIT was answered still fires at the
\* end of the window and posts its snapshot
C26_InitReplyKeepsDebounce ==
    /\ ev.kind = "REQUEST_INIT" =>
          /\ player.timer = ev.timerBefore
          /\ ev.fixed
          /\ Len(ev.posted) = 1
    /\ (ev.kind = "timeout" /\ g.replied) =>
          /\ g.elapsed = DEBOUNCE_MS
          /\ Len(ev.posted) = 1
          /\ ev.posted[1].type = "STATE_UPDATE"

\* the timeout of a window fired after a REQUEST_INIT was answered inside it
C26_Witness ==
    /\ ev.kind = "timeout" /\ g.replied
    /\ g.elapsed = DEBOUNCE_MS
    /\ Len(ev.posted) = 1
    /\ player.st.currentSong = "a"


\* ------------------------------------------------------ properties: reorder
MaxIndex == 2   \* reorder indices range over -MaxIndex .. MaxIndex

\* no entry of the playlist is undefined
Intact(ss) == \A i \in 1 .. Len(ss) : ss[i] # Undefined

\* the library panel or a forwarded command calls onReorder(from, to)
Reorder(from, to) ==
    /\ CanHandle(TRUE)
    /\ LET Q == handleReorder(player, from, to)
       IN  /\ player' = Step(Q, TRUE)
           /\ g' = GAfter(Q, TRUE, NoCmd)
           /\ ev' = [Ev("reorder") EXCEPT !.payload = [from |-> from, to |-> to],
                                          !.fixed = (Q = player)]
    /\ UNCHANGED <<ctrl, playerInbox, ctrlInbox>>

\* a Player whose playlist grows, shrinks and is reordered, up to the first
\* undefined entry
NextReorder ==
    \/ PlayerMount
    \/ \E ok \in BOOLEAN : PlaySettled(ok, TRUE)
    \/ Intact(player.st.songs) /\ \E s \in SongIds : AddSong(s, TRUE)
    \/ Intact(player.st.songs) /\ \E s \in SongIds : RemoveSong(s, TRUE)
    \/ Intact(player.st.songs)
         /\ \E from \in -MaxIndex .. MaxIndex, to \in -MaxIndex .. MaxIndex : Reorder(from, to)

SpecReorder == Init /\ [][NextReorder]_vars

Count(ss, x) == Len(ss) - Len(Filter(ss, x))

SameSongs(ss, tt) ==
    /\ Len(ss) = Len(tt)
    /\ \A x \in SongIds \cup {Undefined} : Count(ss, x) = Count(tt, x)

InRange(ss, i) == 0 <= i /\ i < Len(ss)

\* the playlist after a reorder has the moved song at index to and the other
\* songs in the order they had
MovedTo(before, after, from, to) ==
    /\ after[to + 1] = before[from + 1]
    /\ Filter(after, before[from + 1]) = Filter(before, before[from + 1])

\* C27: for every playlist and every (from, to), out-of-range indices
\* included, the reordered playlist has the same length and the same songs
\* and no undefined entry; for in-range indices the moved song is at index to
\* and the other songs keep their relative order
C27_ReorderPermutes ==
    ev.kind = "reorder" =>
        /\ SameSongs(ev.songsBefore, player.st.songs)
        /\ Intact(player.st.songs)
        /\ (InRange(ev.songsBefore, ev.payload.from) /\ InRange(ev.songsBefore, ev.payload.to))
              => MovedTo(ev.songsBefore, player.st.songs, ev.payload.from, ev.payload.to)

\* what holds: the reorder permutes whenever splice finds an entry at from
\* (from below the length, negative values counted from the end), whatever to
\* is; and in-range indices move the song to index to
C27_PermutesWhenSourceExists ==
    ev.kind = "reorder" =>
        /\ SpliceStart(ev.songsBefore, ev.payload.from) < Len(ev.songsBefore)
              => SameSongs(ev.songsBefore, player.st.songs) /\ Intact(player.st.songs)
        /\ (InRange(ev.songsBefore, ev.payload.from) /\ InRange(ev.songsBefore, ev.payload.to))
              => MovedTo(ev.songsBefore, player.st.songs, ev.payload.from, ev.payload.to)

\* a from at the length of the playlist put an undefined entry into it
C27_UndefinedInserted ==
    /\ ev.kind = "reorder"
    /\ ev.songsBefore = <<"a">>
    /\ ev.payload = [from |-> 1, to |-> 0]
    /\ player.st.songs = <<Undefined, "a">>

\* an in-range reorder of a two-song playlist
C27_InRangeMoved ==
    /\ ev.kind = "reorder"
    /\ ev.songsBefore = <<"a", "b">>
    /\ ev.payload = [from |-> 0, to |-> 1]
    /\ player.st.songs = <<"b", "a">>


\* ------------------------------------------------- properties: rate of video
\* the drift correction together with seeks and song changes
NextRate ==
    \/ PlayerMount
    \/ \E s \in SongIds : AddSong(s, TRUE)
    \/ \E ok \in BOOLEAN : PlaySettled(ok, TRUE)
    \/ CommandArrives("TOGGLE_PLAY", 0, TRUE)
    \/ \E off \in Offsets : DriftTick(2000, off)
    \/ VisibilityChange
    \/ CooldownExpires
    \/ CooldownElapse
    \/ \E t \in 0 .. MaxTime : CommandArrives("SEEK", t, TRUE)
    \/ \E s \in SongIds : CommandArrives("PLAY_SONG", [id |-> s], TRUE)

SpecRate == Init /\ [][NextRate]_vars

Rates == {95, 100, 105}

\* C28: in every reachable state the playback rate of the video is 0.95, 1.0
\* or 1.05, and a tick changes the position of the video only when it finds a
\* drift of more than SEEK_THRESHOLD_MS
C28_RateInSetAndSeekOnlyOnMajorDrift ==
    /\ player.video.playbackRate \in Rates
    /\ (ev.kind = "timeupdate" /\ player.video.currentTime # ev.before.video.currentTime)
          => (Evaluated /\ Abs(Delta) > SEEK_THRESHOLD_MS)

\* a tick found the video 1.2 s ahead at rate 0.95 and moved it
C28_Witness ==
    /\ Evaluated /\ Delta = 1200
    /\ ev.before.video.playbackRate = 95
    /\ player.video.currentTime # ev.before.video.currentTime
    /\ player.video.playbackRate = 100


\* ------------------------------------------------- properties: convergence
Duration == 20000             \* ms of the song; playback ticks stop there
TimeUpdateSteps == {100, 200} \* ms of playback between two 'timeupdate' events

\* both elements play for dt ms, the audio at rate 1 and the video at its
\* playback rate, and the audio element fires 'timeupdate'
PlaybackTick(dt) ==
    /\ CanHandle(TRUE)
    /\ ~ player.audio.paused /\ player.audio.src # NoSong
    /\ player.video.present /\ ~ player.video.paused
    /\ player.audio.currentTime > 0
    /\ player.audio.currentTime + dt <= Duration
    /\ LET P == [player EXCEPT
                   !.audio.currentTime = @ + dt,
                   !.video.currentTime = @ + (dt * player.video.playbackRate) \div 100]
       IN  /\ player' = Settle(handleTimeUpdate(P))
           /\ g' = GAfter(handleTimeUpdate(P), TRUE, NoCmd)
           /\ ev' = [Ev("timeupdate") EXCEPT !.before = Before(P)]
    /\ UNCHANGED <<ctrl, playerInbox, ctrlInbox>>

PlaybackTicks == \E dt \in TimeUpdateSteps : PlaybackTick(dt)

\* songs are added, playback starts, its first tick finds some drift, and
\* playback goes on undisturbed
NextConverge ==
    \/ PlayerMount
    \/ player.audio.currentTime = 0 /\ \E s \in SongIds : AddSong(s, TRUE)
    \/ \E ok \in BOOLEAN : PlaySettled(ok, TRUE)
    \/ ~ player.playPending /\ player.audio.currentTime = 0
         /\ \E off \in Offsets : DriftTick(2000, off)
    \/ PlaybackTicks

\* a playing audio element fires 'timeupdate' again and again
SpecConverge == Init /\ [][NextConverge]_vars /\ WF_vars(PlaybackTicks)

Drift(P) == P.video.currentTime - P.audio.currentTime

BothPlaying ==
    /\ player.attached /\ player.video.present
    /\ ~ player.audio.paused /\ ~ player.video.paused
    /\ ~ player.playPending /\ ~ player.isRecoveringFromBackground

\* the last tick found a minor drift
MinorDrift ==
    /\ ev.kind = "timeupdate" /\ BothPlaying
    /\ Abs(Drift(player)) >= SYNC_THRESHOLD_MS /\ Abs(Drift(player)) <= SEEK_THRESHOLD_MS

Synced ==
    /\ BothPlaying
    /\ Abs(Drift(player)) < SYNC_THRESHOLD_MS
    /\ player.video.playbackRate = 100

\* one tick out of a minor drift: the drift shrinks, keeps its sign, and the
\* video is not sought
ConvergingStep ==
    (MinorDrift /\ ev'.kind = "timeupdate") =>
        /\ Abs(Drift(player')) < Abs(Drift(player))
        /\ (Drift(player') > 0) = (Drift(player) > 0)
        /\ Drift(player') # 0
        /\ player'.video.currentTime = ev'.before.video.currentTime

\* C29: from a minor drift with both tracks playing, no cooldown and no seek,
\* the rate is 0.95 if the video leads and 1.05 if it lags, every tick brings
\* the drift nearer to 0 without changing its sign and without a hard seek, and
\* eventually the drift is below SYNC_THRESHOLD_MS with the rate back at 1.0
C29_ConvergesWithoutJump ==
    /\ [](MinorDrift => player.video.playbackRate = IF Drift(player) > 0 THEN 95 ELSE 105)
    /\ [][ConvergingStep]_vars
    /\ MinorDrift ~> Synced

\* a tick after undisturbed playback found the video less than 0.15 s ahead
\* at rate 0.95 and set the rate to 1.0
C29_Witness ==
    /\ Evaluated /\ Delta > 0 /\ Delta < SYNC_THRESHOLD_MS
    /\ ev.before.video.playbackRate = 95
    /\ ev.before.audioTime > 2000
    /\ Synced


\* ------------------------------------- properties: the Controller came first
\* a Controller and a Player that attach in either order and stay attached
NextLate ==
    \/ ControllerMount
    \/ PlayerMount
    \/ AddSong("a", TRUE)
    \/ \E t \in 0 .. MaxTime : AudioTick(t, TRUE)
    \/ \E ok \in BOOLEAN : PlaySettled(ok, TRUE)
    \/ \E d \in TimeSteps : Advance(d)
    \/ ThrottleTimeout
    \/ DeliverToPlayer
    \/ DeliverToController

\* fair scheduling as in SpecSyncFair
SpecLateFair ==
    /\ Init /\ [][NextLate]_vars
    /\ SF_vars(ThrottleTimeout)
    /\ WF_vars(\E d \in TimeSteps : Advance(d))
    /\ WF_vars(DeliverToController)
    /\ WF_vars(DeliverToPlayer)

\* the same with an audio element that fires no 'timeupdate'
NextLateQuiet ==
    \/ ControllerMount
    \/ PlayerMount
    \/ AddSong("a", TRUE)
    \/ \E ok \in BOOLEAN : PlaySettled(ok, TRUE)
    \/ \E d \in TimeSteps : Advance(d)
    \/ ThrottleTimeout
    \/ DeliverToPlayer
    \/ DeliverToController

SpecLateQuietFair ==
    /\ Init /\ [][NextLateQuiet]_vars
    /\ SF_vars(ThrottleTimeout)
    /\ WF_vars(\E d \in TimeSteps : Advance(d))
    /\ WF_vars(DeliverToController)
    /\ WF_vars(DeliverToPlayer)

\* the Controller is attached and uninitialized, the Player is attached and
\* no REQUEST_INIT is on its way
LateController ==
    /\ ctrl.attached /\ ~ Initialized
    /\ player.attached /\ playerInbox = <<>>

\* C30: a Controller that attached before the Player, its REQUEST_INIT lost,
\* is initialized eventually once the Player is attached and stays attached
C30_LateControllerInitialized ==
    LateController ~> Initialized

\* what holds: when the changes in the Player come to an end, the timeout of
\* the last one fires and its snapshot initializes the Controller
C30_InitializedOnceQuiet ==
    (LateController /\ player.timer # NoTimer) ~> Initialized

\* the Controller waits while the throttle effect ran again before the
\* timeout of the Player's mount could fire
C30_StarvedController ==
    /\ LateController
    /\ ctrlInbox = <<>>
    /\ g.flushes = 0 /\ g.burst = 2
    /\ player.timer = DEBOUNCE_MS

====
